---- MODULE Spec2Model ----
(***************************************************************************)
(* The Es256k procedures of stronghold_ext (src/procs/es256k.rs):          *)
(* GenerateKey, PublicKey, Sign and Verify executed against a secret       *)
(* store.  The procedures' own code (use_secret, generate, source, target, *)
(* input, output, execute) is translated from the source file.  The        *)
(* signature algorithm (crate::Es256k) and the engine that resolves a      *)
(* Location into a guarded buffer are not part of that file; they are      *)
(* modelled from the interface the specification gives them (sections 4.4  *)
(* and 6): a deterministic, pure signature scheme over a small prime-order *)
(* group, with the byte encodings' lengths kept as in the program.         *)
(***************************************************************************)
EXTENDS Integers, Sequences, FiniteSets, TLC

VARIABLES store, generated, last

vars == <<store, generated, last>>

(***************************************************************************)
(* Bounds and program constants.                                           *)
(***************************************************************************)

\* Message bytes range over 0..MaxByte.
MaxByte == 1

\* Length of the SEC1 compressed public key (asserted by the crate's test).
PubKeyLen == 33

\* A scalar (private key, signature component) is one byte shorter.
ScalarLen == PubKeyLen - 1

\* A signature is two scalars side by side.
SigLen == 2 * ScalarLen

\* The group: the subgroup of order GroupN of the integers modulo GroupP,
\* generated by GroupG.
GroupP == 11

GroupN == 5

GroupG == 4

\* The secret store's slots (Location values).
Locations == {"sk_loc", "other_loc"}

\* Plaintext messages: the empty message and every one-byte message.
Msgs == {<<>>} \cup {<<b>> : b \in 0..MaxByte}

(***************************************************************************)
(* Byte encodings.                                                         *)
(***************************************************************************)

\* The scalars of the model are below 256^3: only the last three bytes of an
\* encoding can differ from zero.
TooLarge == 256 * 256 * 256

\* Big-endian encoding of v < TooLarge in len bytes.
ToBytes(v, len) ==
    [i \in 1..len |-> IF len - i > 2 THEN 0 ELSE (v \div (256 ^ (len - i))) % 256]

\* As many zero bytes as the longest encoding has.
ZeroBytes == [i \in 1..SigLen |-> 0]

\* Big-endian decoding; every value of TooLarge and above decodes to
\* TooLarge, which is out of the range of every scalar.
FromBytes(bytes) ==
    IF SubSeq(bytes, 1, Len(bytes) - 3) # SubSeq(ZeroBytes, 1, Len(bytes) - 3)
    THEN TooLarge
    ELSE   (IF Len(bytes) > 2 THEN bytes[Len(bytes) - 2] * 256 * 256 ELSE 0)
         + (IF Len(bytes) > 1 THEN bytes[Len(bytes) - 1] * 256 ELSE 0)
         + (IF Len(bytes) > 0 THEN bytes[Len(bytes)] ELSE 0)

RECURSIVE PowMod(_, _, _)
\* base^exp modulo m.
PowMod(base, exp, m) ==
    IF exp = 0 THEN 1 % m ELSE (base * PowMod(base, exp - 1, m)) % m

\* The subgroup generated by GroupG.
Subgroup == {PowMod(GroupG, k, GroupP) : k \in 0..(GroupN - 1)}

(***************************************************************************)
(* The algorithm capability (crate::Es256k).                               *)
(***************************************************************************)

\* The opaque error of a failed parse, as its Debug formatting shows it.
ParseError == "Error"

NoError == ""

\* A signing key is a scalar of ScalarLen bytes, non-zero and below the
\* group order.
SigningKey_from_scalar(len, scalar) ==
    IF len = ScalarLen /\ scalar > 0 /\ scalar < GroupN
    THEN [ok |-> TRUE, e |-> NoError, sk |-> scalar]
    ELSE [ok |-> FALSE, e |-> ParseError, sk |-> 0]

\* <Es256k as Algorithm>::SigningKey::from_slice.
SigningKey_from_slice(bytes) ==
    SigningKey_from_scalar(Len(bytes), FromBytes(bytes))

\* SigningKey::as_bytes.
SigningKey_as_bytes(sk) == ToBytes(sk, ScalarLen)

\* SigningKey::to_verifying_key: the public group element.
SigningKey_to_verifying_key(sk) == PowMod(GroupG, sk, GroupP)

\* VerifyingKey::as_bytes: the compressed encoding, a prefix byte (2 or 3,
\* the parity) followed by the element.
VerifyingKey_as_bytes(vk) == <<2 + (vk % 2)>> \o ToBytes(vk, ScalarLen)

\* A verifying key is PubKeyLen bytes: the prefix 2 or 3 and an element of
\* the subgroup of that parity, other than the identity.
VerifyingKey_from_element(bytes, element) ==
    IF /\ Len(bytes) = PubKeyLen
       /\ bytes[1] \in {2, 3}
       /\ element \in Subgroup \ {1}
       /\ bytes[1] = 2 + (element % 2)
    THEN [ok |-> TRUE, e |-> NoError, vk |-> element]
    ELSE [ok |-> FALSE, e |-> ParseError, vk |-> 0]

\* <Es256k as Algorithm>::VerifyingKey::from_slice.
VerifyingKey_from_slice(bytes) ==
    VerifyingKey_from_element(bytes, FromBytes(Tail(bytes)))

\* The message digest, reduced to a scalar: the position of the message in
\* the bijective numbering of byte strings.  It is collision-free on Msgs.
RECURSIVE Digest(_)
Digest(m) ==
    IF m = <<>> THEN 0
    ELSE (Digest(SubSeq(m, 1, Len(m) - 1)) * (MaxByte + 1) + m[Len(m)] + 1) % GroupN

\* The challenge scalar binds the commitment and the message digest.
Challenge(r, m) == (r + Digest(m)) % GroupN

\* The response scalar for nonce k.
Response(sk, k, m) ==
    (k + Challenge(PowMod(GroupG, k, GroupP), m) * sk) % GroupN

\* The signature made with nonce k.
SignWithNonce(sk, k, m) ==
    [r |-> PowMod(GroupG, k, GroupP), s |-> Response(sk, k, m)]

\* The deterministic nonce: the first scalar, counting from a value derived
\* from the key and the digest, that is non-zero and gives a non-zero
\* response.
Nonce(sk, m) ==
    LET start == (sk + Digest(m)) % GroupN
        cand(i) == (start + i) % GroupN
        good(i) == cand(i) # 0 /\ Response(sk, cand(i), m) # 0
    IN  cand(CHOOSE i \in 0..(GroupN - 1) :
                good(i) /\ \A j \in 0..(i - 1) : ~good(j))

\* <Es256k as Algorithm>::sign: a commitment r and a response s.
Es256k_sign(sk, m) == SignWithNonce(sk, Nonce(sk, m), m)

\* Signature::as_bytes.
Signature_as_bytes(sig) == ToBytes(sig.r, ScalarLen) \o ToBytes(sig.s, ScalarLen)

\* A signature is SigLen bytes: a commitment and a response, both non-zero
\* and in range.
Signature_from_scalars(len, r, s) ==
    IF len = SigLen /\ r > 0 /\ r < GroupP /\ s > 0 /\ s < GroupN
    THEN [ok |-> TRUE, e |-> NoError, sig |-> [r |-> r, s |-> s]]
    ELSE [ok |-> FALSE, e |-> ParseError, sig |-> [r |-> 0, s |-> 0]]

\* <Es256k as Algorithm>::Signature::try_from_slice.
Signature_try_from_slice(bytes) ==
    Signature_from_scalars(
        Len(bytes),
        FromBytes(SubSeq(bytes, 1, ScalarLen)),
        FromBytes(SubSeq(bytes, ScalarLen + 1, Len(bytes))))

\* <Es256k as Algorithm>::verify_signature: g^s = r * vk^e.
Es256k_verify_signature(sig, vk, m) ==
    PowMod(GroupG, sig.s, GroupP)
        = (sig.r * PowMod(vk, Challenge(sig.r, m), GroupP)) % GroupP

\* The scalars <Es256k as Algorithm>::generate_signing_key can draw.
Es256k_generate_signing_key == 1..(GroupN - 1)

(***************************************************************************)
(* Procedure values and results.                                           *)
(***************************************************************************)

\* Es256kProcs: the four variants with their fields (a field a variant does
\* not have is empty; loc is the one Location of the variant).
GenerateKey(target) ==
    [kind |-> "GenerateKey", loc |-> target, msg |-> <<>>, signature |-> <<>>]

PublicKey(private_key) ==
    [kind |-> "PublicKey", loc |-> private_key, msg |-> <<>>, signature |-> <<>>]

Sign(msg, private_key) ==
    [kind |-> "Sign", loc |-> private_key, msg |-> msg, signature |-> <<>>]

Verify(msg, signature, private_key) ==
    [kind |-> "Verify", loc |-> private_key, msg |-> msg, signature |-> signature]

\* Result::Ok with its output bytes.
Ok(bytes) == [ok |-> TRUE, out |-> bytes, text |-> "", arg |-> ""]

\* A FatalProcedureError made of format!(text, e).
Err(text, e) == [ok |-> FALSE, out |-> <<>>, text |-> text, arg |-> e]

KeyErrorText == "Es256k: Failed to get signing key from guard {:?}"

SigErrorText == "Es256k: Failed to get signature from vector {:?}"

\* The engine's error for a Location that holds no record.
ResolveErrorText == "Engine: no record at the location"

(***************************************************************************)
(* The procedures (src/procs/es256k.rs).                                   *)
(***************************************************************************)

\* A plausible slip: the key bytes themselves are returned.
PublicKey_use_secret_raw(proc, guard) ==
    LET parsed == SigningKey_from_slice(guard[1])
    IN  IF ~parsed.ok THEN Err(KeyErrorText, parsed.e)
        ELSE Ok(SigningKey_as_bytes(parsed.sk))

\* A plausible slip: the guarded bytes are formatted into the error.
PublicKey_use_secret_echo(proc, guard) ==
    LET parsed == SigningKey_from_slice(guard[1])
    IN  IF ~parsed.ok THEN Err(KeyErrorText, ToString(guard[1]))
        ELSE Ok(VerifyingKey_as_bytes(SigningKey_to_verifying_key(parsed.sk)))

\* PublicKey::use_secret once from_slice has answered: the error of a failed
\* parse, or the bytes of the derived verifying key.
PublicKey_with_key(parsed) ==
    IF ~parsed.ok THEN Err(KeyErrorText, parsed.e)
    ELSE Ok(VerifyingKey_as_bytes(SigningKey_to_verifying_key(parsed.sk)))

\* impl UseSecret<1> for PublicKey: use_secret.
PublicKey_use_secret(proc, guard) ==
    PublicKey_with_key(SigningKey_from_slice(guard[1]))

\* Sign::use_secret once from_slice has answered: the error of a failed
\* parse, or the bytes of the signature over the message.
Sign_with_key(proc, parsed) ==
    IF ~parsed.ok THEN Err(KeyErrorText, parsed.e)
    ELSE Ok(Signature_as_bytes(Es256k_sign(parsed.sk, proc.msg)))

\* impl UseSecret<1> for Sign: use_secret.
Sign_use_secret(proc, guard) ==
    Sign_with_key(proc, SigningKey_from_slice(guard[1]))

\* A plausible slip: the signature is parsed before the key.
Verify_use_secret_sig_first(proc, guard) ==
    LET parsed == SigningKey_from_slice(guard[1])
        sig    == Signature_try_from_slice(proc.signature)
    IN  IF ~sig.ok THEN Err(SigErrorText, sig.e)
        ELSE IF ~parsed.ok THEN Err(KeyErrorText, parsed.e)
        ELSE IF Es256k_verify_signature(
                    sig.sig, SigningKey_to_verifying_key(parsed.sk), proc.msg)
             THEN Ok(<<1>>)
             ELSE Ok(<<0>>)

\* A plausible slip: a signature that does not parse counts as a mismatch.
Verify_use_secret_lenient(proc, guard) ==
    LET parsed == SigningKey_from_slice(guard[1])
        sig    == Signature_try_from_slice(proc.signature)
    IN  IF ~parsed.ok THEN Err(KeyErrorText, parsed.e)
        ELSE IF ~sig.ok THEN Ok(<<0>>)
        ELSE IF Es256k_verify_signature(
                    sig.sig, SigningKey_to_verifying_key(parsed.sk), proc.msg)
             THEN Ok(<<1>>)
             ELSE Ok(<<0>>)

\* A plausible slip: the two result bytes are exchanged.
Verify_use_secret_swapped(proc, guard) ==
    LET parsed == SigningKey_from_slice(guard[1])
        sig    == Signature_try_from_slice(proc.signature)
    IN  IF ~parsed.ok THEN Err(KeyErrorText, parsed.e)
        ELSE IF ~sig.ok THEN Err(SigErrorText, sig.e)
        ELSE IF Es256k_verify_signature(
                    sig.sig, SigningKey_to_verifying_key(parsed.sk), proc.msg)
             THEN Ok(<<0>>)
             ELSE Ok(<<1>>)

\* Verify::use_secret once the two parses have answered: the key's error
\* first, then the signature's, then the verdict as one byte.
Verify_with_key(proc, parsed, sig) ==
    IF ~parsed.ok THEN Err(KeyErrorText, parsed.e)
    ELSE IF ~sig.ok THEN Err(SigErrorText, sig.e)
    ELSE IF Es256k_verify_signature(
                sig.sig, SigningKey_to_verifying_key(parsed.sk), proc.msg)
         THEN Ok(<<1>>)
         ELSE Ok(<<0>>)

\* impl UseSecret<1> for Verify: use_secret.
Verify_use_secret(proc, guard) ==
    Verify_with_key(
        proc,
        SigningKey_from_slice(guard[1]),
        Signature_try_from_slice(proc.signature))

\* source() of PublicKey, Sign and Verify: the one Location to resolve.
UseSecret_source(proc) == <<proc.loc>>

\* A plausible slip: the key is also handed to the plaintext output.
GenerateKey_generate_leak(proc, sk) ==
    [secret |-> SigningKey_as_bytes(sk), output |-> SigningKey_as_bytes(sk)]

\* A plausible slip: the public key is stored in place of the private key.
GenerateKey_generate_public(proc, sk) ==
    [secret |-> VerifyingKey_as_bytes(SigningKey_to_verifying_key(sk)),
     output |-> <<>>]

\* impl GenerateSecret for GenerateKey: generate, with sk the key drawn by
\* generate_signing_key.  The unit output is the empty byte sequence.
GenerateKey_generate(proc, sk) ==
    [secret |-> SigningKey_as_bytes(sk), output |-> <<>>]

\* impl GenerateSecret for GenerateKey: target.
GenerateKey_target(proc) == proc.loc

\* A plausible slip: the Verify arm answers None.
Es256kProcs_input_no_verify(proc) ==
    IF proc.kind \in {"GenerateKey", "Verify"} THEN {} ELSE {proc.loc}

\* impl ProcedureExt for Es256kProcs: input, an Option as a set of at most
\* one Location.
Es256kProcs_input(proc) ==
    IF proc.kind = "GenerateKey" THEN {} ELSE {proc.loc}

\* A plausible slip: every arm answers None.
Es256kProcs_output_none(proc) == {}

\* impl ProcedureExt for Es256kProcs: output.
Es256kProcs_output(proc) ==
    IF proc.kind = "GenerateKey" THEN {proc.loc} ELSE {}

(***************************************************************************)
(* The inputs the model draws from.                                        *)
(***************************************************************************)

\* Bytes that do not parse as a signing key: too short, the zero scalar,
\* and a scalar that is not below the group order.
MalformedKeys ==
    { ToBytes(1, ScalarLen - 1),
      ToBytes(0, ScalarLen),
      ToBytes(GroupN, ScalarLen) }

\* The signing keys generate_signing_key can store.
GeneratedKeys == {SigningKey_as_bytes(sk) : sk \in Es256k_generate_signing_key}

\* What a slot can hold before the first procedure runs: nothing, bytes
\* that are no key, or a key imported by other means.
\* An empty slot and a slot holding bytes.
Absent == [bytes |-> <<>>, present |-> FALSE]

Record(bytes) == [bytes |-> bytes, present |-> TRUE]

InitialSlots ==
    {Absent} \cup {Record(b) : b \in MalformedKeys}
             \cup {Record(SigningKey_as_bytes(1))}

\* Signature bytes that do not parse: too short, a zero component, a
\* response that is not below the group order.
MalformedSigs ==
    { ToBytes(1, SigLen - 1),
      ToBytes(0, SigLen),
      ToBytes(1, ScalarLen) \o ToBytes(GroupN, ScalarLen) }

\* Signatures that parse: every commitment Sign can produce and one that is
\* no element of the subgroup, each with every response.
WellFormedSigs ==
    { ToBytes(r, ScalarLen) \o ToBytes(s, ScalarLen) :
        r \in (Subgroup \ {1}) \cup {2}, s \in 1..(GroupN - 1) }

SigInputs == MalformedSigs \cup WellFormedSigs

(***************************************************************************)
(* The engine: resolving and storing secrets.                              *)
(***************************************************************************)

\* use_secret of the variant.
UseSecret_use_secret(proc, guard) ==
    IF proc.kind = "PublicKey" THEN PublicKey_use_secret(proc, guard)
    ELSE IF proc.kind = "Sign" THEN Sign_use_secret(proc, guard)
    ELSE Verify_use_secret(proc, guard)

\* execute of a secret-consuming procedure: the engine resolves source()
\* into the guarded buffer and hands it to use_secret; nothing is stored.
UseSecret_execute(proc, st) ==
    LET src == UseSecret_source(proc)
    IN  IF ~st[src[1]].present
        THEN [store |-> st, res |-> Err(ResolveErrorText, "")]
        ELSE [store |-> st,
              res   |-> UseSecret_use_secret(proc, <<st[src[1]].bytes>>)]

\* execute of a secret-producing procedure: the engine stores the secret of
\* generate() at target() and returns the non-secret output.
GenerateSecret_execute(proc, st, sk) ==
    LET products == GenerateKey_generate(proc, sk)
    IN  [store |-> [st EXCEPT ![GenerateKey_target(proc)] = Record(products.secret)],
         res   |-> Ok(products.output)]

\* impl Procedure for Es256kProcs: execute dispatches on the variant and
\* wraps the output into the ProcedureOutput envelope.
Es256kProcs_execute(proc, st, sk) ==
    IF proc.kind = "GenerateKey" THEN GenerateSecret_execute(proc, st, sk)
    ELSE UseSecret_execute(proc, st)

(***************************************************************************)
(* The state machine: one action per procedure variant executed.           *)
(***************************************************************************)

\* The value of last before any procedure has run.
NoProc == [kind |-> "None", loc |-> "", msg |-> <<>>, signature |-> <<>>]

Init ==
    /\ store \in [Locations -> InitialSlots]
    /\ generated = {}
    /\ last = [proc |-> NoProc, res |-> Ok(<<>>), pre |-> store]

\* The state after a procedure whose execute returned done: the store it
\* left, the slots GenerateKey has written, and the procedure with its
\* result and the store it ran against.
StateAfter(proc, done) ==
    [store     |-> done.store,
     generated |-> IF proc.kind = "GenerateKey" /\ done.res.ok
                   THEN generated \cup {proc.loc}
                   ELSE generated,
     last      |-> [proc |-> proc, res |-> done.res, pre |-> store]]

\* execute_procedure_ext(client, proc), with sk the key the generator draws.
Step(proc, sk) == StateAfter(proc, Es256kProcs_execute(proc, store, sk))

RunGenerateKey ==
    \E l \in Locations, sk \in Es256k_generate_signing_key :
        \E next \in {Step(GenerateKey(l), sk)} :
            /\ store' = next.store
            /\ generated' = next.generated
            /\ last' = next.last

RunPublicKey ==
    \E l \in Locations :
        \E next \in {Step(PublicKey(l), 0)} :
            /\ store' = next.store
            /\ generated' = next.generated
            /\ last' = next.last

RunSign ==
    \E l \in Locations, m \in Msgs :
        \E next \in {Step(Sign(m, l), 0)} :
            /\ store' = next.store
            /\ generated' = next.generated
            /\ last' = next.last

RunVerify ==
    \E l \in Locations, m \in Msgs, s \in SigInputs :
        \E next \in {Step(Verify(m, s, l), 0)} :
            /\ store' = next.store
            /\ generated' = next.generated
            /\ last' = next.last

Next == RunGenerateKey \/ RunPublicKey \/ RunSign \/ RunVerify

Spec == Init /\ [][Next]_vars

TypeOK ==
    /\ store \in [Locations -> [bytes : Seq(0..255), present : BOOLEAN]]
    /\ generated \subseteq Locations
    /\ last.res.ok \in BOOLEAN

(***************************************************************************)
(* Vocabulary of the properties.                                           *)
(***************************************************************************)

\* The slot the last procedure named, as it was when the procedure ran.
UsedSlot == last.pre[last.proc.loc]

\* The last procedure was a secret-consuming one and its Location resolved.
UsedSecret ==
    /\ last.proc.kind \in {"PublicKey", "Sign", "Verify"}
    /\ UsedSlot.present

\* The bytes the last procedure was handed parse as a signing key.
KeyParsed == SigningKey_from_slice(UsedSlot.bytes).ok

\* The signature the last procedure was given parses.
SigParsed == Signature_try_from_slice(last.proc.signature).ok

\* The malformed-key error.
MalformedKey == Err(KeyErrorText, ParseError)

\* The result of the last procedure had the slot it read held bytes b.
ResultWith(b) ==
    Es256kProcs_execute(
        last.proc, [last.pre EXCEPT ![last.proc.loc] = Record(b)], 0).res

\* The output of Sign over m with the key the last procedure was handed.
SignatureOver(m) ==
    Signature_as_bytes(Es256k_sign(SigningKey_from_slice(UsedSlot.bytes).sk, m))

(***************************************************************************)
(* The properties.                                                         *)
(***************************************************************************)

\* C1: once GenerateKey has stored a key at L, a Sign over m at L followed
\* by a Verify at L of m and of the signature that Sign returned succeeds
\* with the single byte 1.
C1_RoundTrip ==
    [][ ( /\ last.proc.kind = "Sign"
          /\ last.proc.loc \in generated
          /\ last.res.ok
          /\ last'.proc = Verify(last.proc.msg, last.res.out, last.proc.loc) )
        => last'.res = Ok(<<1>>) ]_vars

\* A Verify of a signature made by Sign over the same message, with a
\* generated key, has returned 1.
C1_Witness ==
    /\ last.proc.kind = "Verify"
    /\ last.proc.loc \in generated
    /\ last.proc.msg = <<1>>
    /\ last.proc.signature = SignatureOver(<<1>>)
    /\ last.res = Ok(<<1>>)

\* C2: when the key bytes and the signature bytes both parse, Verify
\* succeeds with one byte, 1 if the signature is valid for the derived
\* verifying key and the message and 0 otherwise; a signature made by Sign
\* with the same key over another message gives 0.
C2_VerifyIsSuccessWithBit ==
    (UsedSecret /\ last.proc.kind = "Verify" /\ KeyParsed /\ SigParsed) =>
        /\ last.res.ok
        /\ Len(last.res.out) = 1
        /\ last.res.out =
              IF Es256k_verify_signature(
                     Signature_try_from_slice(last.proc.signature).sig,
                     SigningKey_to_verifying_key(
                         SigningKey_from_slice(UsedSlot.bytes).sk),
                     last.proc.msg)
              THEN <<1>> ELSE <<0>>
        /\ \A m1 \in Msgs \ {last.proc.msg} :
              last.proc.signature = SignatureOver(m1) => last.res.out = <<0>>

\* A Verify of a signature made over another message has returned 0.
C2_Witness ==
    /\ UsedSecret /\ last.proc.kind = "Verify" /\ KeyParsed
    /\ last.proc.msg = <<0>>
    /\ last.proc.signature = SignatureOver(<<1>>)
    /\ last.res = Ok(<<0>>)

\* C3: PublicKey, Sign and Verify run against stored bytes that do not parse
\* as a signing key fail with the malformed-key error and no output,
\* whatever their plaintext fields are, a malformed signature included.
C3_MalformedKeyFails ==
    (UsedSecret /\ ~KeyParsed) =>
        /\ ~last.res.ok
        /\ last.res.out = <<>>
        /\ last.res = MalformedKey

\* A Verify with a malformed signature has run against a malformed key.
C3_Witness ==
    /\ UsedSecret /\ last.proc.kind = "Verify"
    /\ ~KeyParsed /\ ~SigParsed
    /\ last.res = MalformedKey

\* C4: Verify with a key that parses and a signature that does not fails
\* with an error other than the malformed-key error, never with 0 or 1.
C4_MalformedSignatureFails ==
    (UsedSecret /\ last.proc.kind = "Verify" /\ KeyParsed /\ ~SigParsed) =>
        /\ ~last.res.ok
        /\ last.res.out = <<>>
        /\ last.res.text = SigErrorText
        /\ last.res # MalformedKey

\* A Verify with a malformed signature has run against a generated key.
C4_Witness ==
    /\ UsedSecret /\ last.proc.kind = "Verify"
    /\ last.proc.loc \in generated
    /\ KeyParsed /\ ~SigParsed
    /\ ~last.res.ok

\* The bytes a slot can hold.
SlotBytes == MalformedKeys \cup GeneratedKeys

C6_GenerateOutputEmpty ==
    last.proc.kind = "GenerateKey" =>
        /\ last.res = Ok(<<>>)
        /\ store[GenerateKey_target(last.proc)].present
        /\ store[GenerateKey_target(last.proc)].bytes \in GeneratedKeys

\* GenerateKey has run and its key is in the store.
C6_Witness ==
    /\ last.proc.kind = "GenerateKey"
    /\ last.res.ok
    /\ SigningKey_from_slice(store[last.proc.loc].bytes).ok

\* C7: a procedure changes the store at most at the Location its output()
\* returns: PublicKey, Sign and Verify change no slot, failed or not, and
\* GenerateKey changes only its output slot.
C7_Frame ==
    \A l \in Locations \ Es256kProcs_output(last.proc) : store[l] = last.pre[l]

\* GenerateKey has changed its slot while the other slot holds a record.
C7_Witness ==
    /\ last.proc.kind = "GenerateKey"
    /\ store[last.proc.loc] # last.pre[last.proc.loc]
    /\ \E l \in Locations \ {last.proc.loc} : store[l].present

\* C8: input() is None for GenerateKey and Some(private_key), the one
\* element of source(), for the others; output() is Some(output), equal to
\* target(), for GenerateKey and None for the others; no variant has both.
C8_InputOutput ==
    /\ last.proc.kind = "GenerateKey" =>
          /\ Es256kProcs_input(last.proc) = {}
          /\ Es256kProcs_output(last.proc) = {last.proc.loc}
          /\ Es256kProcs_output(last.proc) = {GenerateKey_target(last.proc)}
    /\ last.proc.kind \in {"PublicKey", "Sign", "Verify"} =>
          /\ Es256kProcs_input(last.proc) = {last.proc.loc}
          /\ Len(UseSecret_source(last.proc)) = 1
          /\ Es256kProcs_input(last.proc) = {UseSecret_source(last.proc)[1]}
          /\ Es256kProcs_output(last.proc) = {}
    /\ Es256kProcs_input(last.proc) = {} \/ Es256kProcs_output(last.proc) = {}

\* A Verify has run.
C8_Witness ==
    /\ last.proc.kind = "Verify"
    /\ Es256kProcs_input(last.proc) = {last.proc.loc}

\* C9: PublicKey at a Location where GenerateKey stored a key succeeds with
\* the compressed encoding of the derived verifying key: PubKeyLen bytes,
\* the first one 2 or 3, which parse back as that verifying key.
C9_PublicKeyEncoding ==
    (last.proc.kind = "PublicKey" /\ last.proc.loc \in generated) =>
        /\ last.res.ok
        /\ Len(last.res.out) = PubKeyLen
        /\ last.res.out[1] \in {2, 3}
        /\ VerifyingKey_from_slice(last.res.out).ok
        /\ VerifyingKey_from_slice(last.res.out).vk =
              SigningKey_to_verifying_key(SigningKey_from_slice(UsedSlot.bytes).sk)
        /\ last.res.out = VerifyingKey_as_bytes(
              SigningKey_to_verifying_key(SigningKey_from_slice(UsedSlot.bytes).sk))

\* PublicKey has run on a generated key.
C9_Witness ==
    /\ last.proc.kind = "PublicKey"
    /\ last.proc.loc \in generated
    /\ last.res.ok

\* C10: every slot GenerateKey wrote holds bytes that parse as a signing
\* key, so PublicKey and Sign there succeed and Verify there with a
\* well-formed signature succeeds with 0 or 1, whatever ran in between.
C10_GeneratedSlotsParse ==
    /\ \A l \in generated :
          store[l].present /\ SigningKey_from_slice(store[l].bytes).ok
    /\ (last.proc.kind \in {"PublicKey", "Sign"} /\ last.proc.loc \in generated)
          => last.res.ok
    /\ (last.proc.kind = "Verify" /\ last.proc.loc \in generated /\ SigParsed)
          => last.res.ok /\ last.res.out \in {<<0>>, <<1>>}

\* Both slots were written by GenerateKey and a Verify with a well-formed
\* signature has run after that.
C10_Witness ==
    /\ generated = Locations
    /\ last.proc.kind = "Verify"
    /\ SigParsed
    /\ last.res.ok

====
